---- MODULE Spec2Model ----
(***************************************************************************)
(* The WhatsApp webhook handler of COMPLETE_WEBHOOK_FUNCTION.ts as a state *)
(* machine.  Every request is a process that walks through the handler's   *)
(* awaited calls; one action per awaited call (the local code that follows *)
(* a call up to the next await is part of that call's action).  The rows   *)
(* of whatsapp_conversations are the shared state; requests interleave at  *)
(* every await, as Deno serves them concurrently.                          *)
(*                                                                         *)
(* JavaScript values are tokens (strings): "undefined", "null", "", "0",   *)
(* "false" are the falsy ones the handler can meet, anything else is       *)
(* truthy.  Addresses are sequences of tokens, so that stripping the       *)
(* "whatsapp:" scheme and the "+" sign is computed and not assumed.        *)
(***************************************************************************)
EXTENDS Integers, Sequences, FiniteSets, TLC

\* ------------------------------------------------------------------ bounds
MaxRequests == 2
MaxTime == 3
MaxFaults == 2

\* The liveness window of line 134 (2 * 60 * 60 * 1000 ms), in clock ticks of
\* one hour.
TwoHours == 2

VARIABLES
    hospitals,          \* rows of table hospitals (never written by the handler)
    twilioConfigured,   \* TWILIO_ACCOUNT_SID and TWILIO_AUTH_TOKEN are both set
    sessions,           \* rows of table whatsapp_conversations, row id = index
    req,                \* per request: position in the handler and its locals
    now,                \* Date.now(), in hours
    faults,             \* failures of external calls injected so far
    mergeIn, mergeOut   \* input and output of the state merge taken alone

vars == <<hospitals, twilioConfigured, sessions, req, now, faults, mergeIn, mergeOut>>

Requests == 1..MaxRequests

\* ------------------------------------------------------- JavaScript values
Falsy == {"undefined", "null", "", "0", "false"}

Truthy(v) == v \notin Falsy

\* a || b
Or(a, b) == IF Truthy(a) THEN a ELSE b

\* String.prototype.replace(tok, ''): removes the first occurrence only.
RECURSIVE replace(_, _)
replace(s, tok) ==
    IF s = <<>> THEN <<>>
    ELSE IF Head(s) = tok THEN Tail(s)
    ELSE <<Head(s)>> \o replace(Tail(s), tok)

\* Lines 71-72: from.replace('whatsapp:', '').replace('+', '')
normalize(addr) == replace(replace(addr, "whatsapp:"), "+")

\* ------------------------------------------------------------ table rows
\* A row of table hospitals, as the two queries of lines 82-100 read it.
HospitalRow(number, enabled, orgType) ==
    [whatsapp_number |-> number, whatsapp_enabled |-> enabled,
     organization_type |-> orgType]

\* The deployment the concurrent runs use: one enabled hospital whose number
\* is stored with the sign, one enabled clinic whose number is stored bare.
MainHospitals ==
    << HospitalRow(<<"+", "15559876543">>, TRUE, "hospital"),
       HospitalRow(<<"15550000009">>, TRUE, "clinic") >>

\* The insert storing the sender's address as it arrived, scheme and sign
\* included, instead of the stripped one.
NewConversation_RawSender(hospitalId, patientPhone, t) ==
    [hospital_id |-> hospitalId,
     patient_phone |-> <<"whatsapp:", "+">> \o patientPhone,
     conversation_state |-> "greeting", transcript |-> <<>>,
     last_message_at |-> t, created_at |-> t,
     collected_symptoms |-> "null", triage_level |-> "null",
     urgency_score |-> "null", first_aid_given |-> "null",
     patient_name |-> "null", appointment_created |-> FALSE]

\* The row the insert of lines 152-161 creates: the handler sets four
\* columns, the others take the table's defaults (clinical columns null,
\* appointment_created false, both timestamps now()).
NewConversation(hospitalId, patientPhone, t) ==
    [hospital_id |-> hospitalId, patient_phone |-> patientPhone,
     conversation_state |-> "greeting", transcript |-> <<>>,
     last_message_at |-> t, created_at |-> t,
     collected_symptoms |-> "null", triage_level |-> "null",
     urgency_score |-> "null", first_aid_given |-> "null",
     patient_name |-> "null", appointment_created |-> FALSE]

\* select('*') of one row: the row with its id.
Snapshot(i) == [id |-> i, row |-> sessions[i]]

NoConversation == [id |-> 0, row |-> NewConversation(0, <<>>, 0)]

\* ------------------------------------------------------ inbound messages
\* What the two transports post: Twilio (form data, addresses with scheme
\* and sign) and the Baileys bot (JSON, bare addresses).
Messages ==
    { [isBaileysBot |-> FALSE, from |-> <<"whatsapp:", "+", "15551234567">>,
       to |-> <<"whatsapp:", "+", "15559876543">>],
      [isBaileysBot |-> TRUE, from |-> <<"15551234567">>,
       to |-> <<"15559876543">>],
      [isBaileysBot |-> FALSE, from |-> <<"whatsapp:", "+", "15550000002">>,
       to |-> <<"whatsapp:", "+", "15559876543">>],
      [isBaileysBot |-> TRUE, from |-> <<"15551234567">>,
       to |-> <<"15550000009">>] }

\* The text of request r's message, and its MessageSid.
Body(r) == ToString(r)

\* ------------------------------------------- reasoning-service responses
AiResult(response, newState, symptoms, triageLevel, patientName, urgencyScore, firstAid, createAppointment) ==
    [response |-> response, newState |-> newState, symptoms |-> symptoms,
     triageLevel |-> triageLevel, patientName |-> patientName,
     urgencyScore |-> urgencyScore, firstAid |-> firstAid,
     createAppointment |-> createAppointment]

U == "undefined"

NoResult == AiResult(U, U, U, U, U, U, U, U)

\* The body of an HTTP error answer of the reasoning service ({error: ...}):
\* JSON that parses, with none of the fields the handler reads.
ErrorBody == NoResult

\* The JSON bodies the reasoning service answers with in the concurrent runs.
AiResults ==
    { AiResult("reply", U, U, U, U, U, U, U),
      AiResult("bye", "completed", U, U, U, U, U, U),
      AiResult("booked", "triage", "fever", "MODERATE", "Ann", "5", "rest", U),
      AiResult("call 112", "triage", "chest pain", "CRITICAL", U, "9", U, "true") }

\* ------------------------------------------------------------- responses
\* The HTTP responses of lines 114-126, 301-315 and 326-341.
Success(isBaileysBot) ==
    IF isBaileysBot THEN [format |-> "json", kind |-> "success", status |-> 200]
    ELSE [format |-> "xml", kind |-> "empty", status |-> 200]

NotConfigured(isBaileysBot) ==
    IF isBaileysBot THEN [format |-> "json", kind |-> "not_configured", status |-> 200]
    ELSE [format |-> "xml", kind |-> "not_configured", status |-> 200]

\* The catch block answering in XML whatever the channel.
ErrorResponse_AlwaysXml(isBaileysBot) ==
    [format |-> "xml", kind |-> "error", status |-> 200]

ErrorResponse(isBaileysBot) ==
    IF isBaileysBot THEN [format |-> "json", kind |-> "error", status |-> 500]
    ELSE [format |-> "xml", kind |-> "error", status |-> 200]

NoResponse == [format |-> "none", kind |-> "none", status |-> 0]

\* --------------------------------------------------------------- requests
IdleRequest ==
    [pc |-> "idle", arrivedAlone |-> FALSE, isBaileysBot |-> FALSE,
     patientPhone |-> <<>>,
     hospitalWhatsApp |-> <<>>, hospitalId |-> 0,
     conversation |-> NoConversation, created |-> FALSE,
     updatedTranscript |-> <<>>, inboundWritten |-> FALSE,
     aiOutcome |-> "none", aiResult |-> NoResult, sent |-> FALSE,
     mergeWritten |-> FALSE, appointment |-> "none",
     response |-> NoResponse]

NoMerge == [conversation |-> NoConversation, aiResult |-> NoResult]

NoMerged ==
    [done |-> FALSE, newState |-> U, collectedSymptoms |-> U, triageLevel |-> U,
     patientName |-> U, urgencyScore |-> U, firstAidGiven |-> U,
     shouldCreateAppointment |-> FALSE]

Init ==
    /\ hospitals = MainHospitals
    /\ twilioConfigured \in BOOLEAN
    /\ sessions = <<>>
    /\ req = [r \in Requests |-> IdleRequest]
    /\ now = 0
    /\ faults = 0
    /\ mergeIn = NoMerge
    /\ mergeOut = NoMerged

\* An external call may fail while the budget of injected failures lasts.
Outcomes == {"ok", "fails"}

Fault(outcome) == IF outcome = "ok" THEN 0 ELSE 1

Allowed(outcome) == faults + Fault(outcome) <= MaxFaults

\* Request r's locals after one step; everything else of req is unchanged.
Set(r, new) == req' = [req EXCEPT ![r] = new]

\* The handler returns: the response goes out and the locals are gone.  What
\* is kept of the request is the record of what it did.
Finish(r, q, response) ==
    Set(r, [IdleRequest EXCEPT
        !.pc = "done",
        !.isBaileysBot = q.isBaileysBot,
        !.hospitalWhatsApp = q.hospitalWhatsApp,
        !.hospitalId = q.hospitalId,
        !.conversation = [id |-> q.conversation.id, row |-> NoConversation.row],
        !.created = q.created,
        !.inboundWritten = q.inboundWritten,
        !.aiOutcome = q.aiOutcome,
        !.sent = q.sent,
        !.mergeWritten = q.mergeWritten,
        !.appointment = q.appointment,
        !.response = response])

\* The catch block of lines 318-343: the step's failure ends the request.
Catch(r, q) == Finish(r, q, ErrorResponse(q.isBaileysBot))

\* ------------------------------------------------------ tenant resolution
\* .single(): the row when the query yields exactly one, else null (0).
single(ids) == IF Cardinality(ids) = 1 THEN CHOOSE i \in ids : TRUE ELSE 0

\* Lines 82-87: enabled hospitals whose number is the bare or the signed form.
matchingHospitals(hospitalWhatsApp) ==
    { i \in DOMAIN hospitals :
        /\ \/ hospitals[i].whatsapp_number = hospitalWhatsApp
           \/ hospitals[i].whatsapp_number = <<"+">> \o hospitalWhatsApp
        /\ hospitals[i].whatsapp_enabled }

\* The fallback query without its organization_type filter.
fallbackHospitals_AnyType == DOMAIN hospitals

\* Lines 95-100: the rows the fallback query may return (limit(1), no order).
fallbackHospitals ==
    { i \in DOMAIN hospitals : hospitals[i].organization_type = "hospital" }

\* Lines 35-92: read the message, strip the addresses, look the hospital up.
HospitalLookup(r) ==
    /\ req[r].pc = "idle"
    /\ \A q \in Requests : q < r => req[q].pc # "idle"
    /\ \E m \in Messages, outcome \in Outcomes :
        /\ Allowed(outcome)
        /\ faults' = faults + Fault(outcome)
        /\ LET hospitalWhatsApp == normalize(m.to)
               hospital == IF outcome = "ok"
                           THEN single(matchingHospitals(hospitalWhatsApp))
                           ELSE 0
           IN Set(r, [req[r] EXCEPT
                  !.arrivedAlone = \A q \in Requests \ {r} : req[q].pc \in {"idle", "done"},
                  !.isBaileysBot = m.isBaileysBot,
                  !.patientPhone = normalize(m.from),
                  !.hospitalWhatsApp = hospitalWhatsApp,
                  !.hospitalId = hospital,
                  !.pc = IF hospital # 0 THEN "session" ELSE "fallback"])
    /\ UNCHANGED <<hospitals, twilioConfigured, sessions, now, mergeIn, mergeOut>>

\* Lines 93-128: the fallback query, and the reply when it finds nothing.
FallbackLookup(r) ==
    /\ req[r].pc = "fallback"
    /\ \E outcome \in Outcomes :
        /\ Allowed(outcome)
        /\ faults' = faults + Fault(outcome)
        /\ IF outcome = "ok" /\ fallbackHospitals # {}
           THEN \E i \in fallbackHospitals :
                    Set(r, [req[r] EXCEPT !.hospitalId = i, !.pc = "session"])
           ELSE Finish(r, req[r], NotConfigured(req[r].isBaileysBot))
    /\ UNCHANGED <<hospitals, twilioConfigured, sessions, now, mergeIn, mergeOut>>

\* ------------------------------------------------------ session resolution
\* The lookup's filters with gt for gte on last_message_at.
activeConversations_StrictWindow(hospitalId, patientPhone, t) ==
    { i \in DOMAIN sessions :
        /\ sessions[i].hospital_id = hospitalId
        /\ sessions[i].patient_phone = patientPhone
        /\ sessions[i].conversation_state # "completed"
        /\ sessions[i].last_message_at > t - TwoHours }

\* The lookup's filters without the one on last_message_at.
activeConversations_NoWindow(hospitalId, patientPhone, t) ==
    { i \in DOMAIN sessions :
        /\ sessions[i].hospital_id = hospitalId
        /\ sessions[i].patient_phone = patientPhone
        /\ sessions[i].conversation_state # "completed" }

\* Lines 134-142: the rows the lookup's filters keep.
activeConversations(hospitalId, patientPhone, t) ==
    { i \in DOMAIN sessions :
        /\ sessions[i].hospital_id = hospitalId
        /\ sessions[i].patient_phone = patientPhone
        /\ sessions[i].conversation_state # "completed"
        /\ sessions[i].last_message_at >= t - TwoHours }

\* Lines 143-145: order by created_at descending, limit 1 (ties in any order).
mostRecent(ids) ==
    { i \in ids : \A j \in ids : sessions[j].created_at <= sessions[i].created_at }

\* Lines 133-150: look for the active conversation.
SessionLookup(r) ==
    /\ req[r].pc = "session"
    /\ \E outcome \in Outcomes :
        /\ Allowed(outcome)
        /\ faults' = faults + Fault(outcome)
        /\ LET found == IF outcome = "ok"
                        THEN mostRecent(activeConversations(
                                 req[r].hospitalId, req[r].patientPhone, now))
                        ELSE {}
           IN IF found # {}
              THEN \E i \in found :
                       Set(r, [req[r] EXCEPT !.conversation = Snapshot(i),
                                             !.pc = "inbound"])
              ELSE Set(r, [req[r] EXCEPT !.pc = "insert"])
    /\ UNCHANGED <<hospitals, twilioConfigured, sessions, now, mergeIn, mergeOut>>

\* Lines 151-170: create the conversation; a failed insert throws.
SessionInsert(r) ==
    /\ req[r].pc = "insert"
    /\ \E outcome \in Outcomes :
        /\ Allowed(outcome)
        /\ faults' = faults + Fault(outcome)
        /\ IF outcome = "ok"
           THEN LET row == NewConversation(req[r].hospitalId, req[r].patientPhone, now)
                IN /\ sessions' = Append(sessions, row)
                   /\ Set(r, [req[r] EXCEPT
                          !.conversation = [id |-> Len(sessions) + 1, row |-> row],
                          !.created = TRUE,
                          !.pc = "inbound"])
           ELSE /\ Catch(r, req[r])
                /\ UNCHANGED sessions
    /\ UNCHANGED <<hospitals, twilioConfigured, now, mergeIn, mergeOut>>

\* --------------------------------------------------------------- transcript
\* Lines 175-180 and 232-236: the two turns a request adds.
patientTurn(r) == [role |-> "patient", content |-> Body(r), messageSid |-> r]

assistantTurn(aiResult) ==
    [role |-> "assistant", content |-> aiResult.response, messageSid |-> 0]

\* Lines 173-181: the snapshot's transcript with the patient's turn.
updatedTranscript(r, conversation) ==
    Append(conversation.row.transcript, patientTurn(r))

\* Lines 230-237: updatedTranscript with the assistant's turn.
finalTranscript(updated, aiResult) == Append(updated, assistantTurn(aiResult))

\* Lines 183-190: persist the patient's turn; the result is not looked at.
InboundUpdate(r) ==
    /\ req[r].pc = "inbound"
    /\ \E outcome \in Outcomes :
        /\ Allowed(outcome)
        /\ faults' = faults + Fault(outcome)
        /\ LET id == req[r].conversation.id
               updated == updatedTranscript(r, req[r].conversation)
           IN /\ sessions' = IF outcome = "ok"
                             THEN [sessions EXCEPT ![id].transcript = updated,
                                                   ![id].last_message_at = now]
                             ELSE sessions
              /\ Set(r, [req[r] EXCEPT !.updatedTranscript = updated,
                                       !.inboundWritten = (outcome = "ok"),
                                       !.pc = "ai"])
    /\ UNCHANGED <<hospitals, twilioConfigured, now, mergeIn, mergeOut>>

\* ---------------------------------------------------------- reasoning call
\* How the call of lines 193-213 can end: a JSON body of the service, an
\* HTTP error answer whose JSON body the handler parses like any other
\* (aiResponse.ok is never read), or fetch()/json() throwing.
AiOutcomes == {"ok", "httpError", "throws"}

\* Lines 192-214: call whatsapp-ai-conversation and parse its answer.
AiCall(r) ==
    /\ req[r].pc = "ai"
    /\ \E outcome \in AiOutcomes :
        /\ Allowed(outcome)
        /\ faults' = faults + Fault(outcome)
        /\ IF outcome = "throws"
           THEN Catch(r, [req[r] EXCEPT !.aiOutcome = outcome])
           ELSE \E aiResult \in (IF outcome = "ok" THEN AiResults ELSE {ErrorBody}) :
                    Set(r, [req[r] EXCEPT
                        !.aiOutcome = outcome,
                        !.aiResult = aiResult,
                        !.pc = IF req[r].isBaileysBot THEN "merge" ELSE "send"])
    /\ UNCHANGED <<hospitals, twilioConfigured, sessions, now, mergeIn, mergeOut>>

\* Lines 216-227 and 346-374: on the Twilio channel the reply goes out
\* through the Twilio API, unless the credentials are missing.
sendWhatsAppMessageViaTwilio(r) ==
    /\ req[r].pc = "send"
    /\ IF ~twilioConfigured
       THEN /\ Set(r, [req[r] EXCEPT !.pc = "merge"])
            /\ UNCHANGED faults
       ELSE \E outcome \in Outcomes :
            /\ Allowed(outcome)
            /\ faults' = faults + Fault(outcome)
            /\ IF outcome = "ok"
               THEN Set(r, [req[r] EXCEPT !.sent = TRUE, !.pc = "merge"])
               ELSE Catch(r, req[r])
    /\ UNCHANGED <<hospitals, twilioConfigured, sessions, now, mergeIn, mergeOut>>

\* ------------------------------------------------------------- state merge
\* Lines 239-244: each field is the service's value or, that being falsy,
\* the snapshot's.
mergeState(row, aiResult) ==
    [newState |-> Or(aiResult.newState, row.conversation_state),
     collectedSymptoms |-> Or(aiResult.symptoms, row.collected_symptoms),
     triageLevel |-> Or(aiResult.triageLevel, row.triage_level),
     patientName |-> Or(aiResult.patientName, row.patient_name),
     urgencyScore |-> Or(aiResult.urgencyScore, row.urgency_score),
     firstAidGiven |-> Or(aiResult.firstAid, row.first_aid_given)]

\* The gate without its test of appointment_created.
shouldCreateAppointment_IgnoresFlag(row, aiResult, merged) ==
    \/ aiResult.createAppointment = "true"
    \/ /\ Truthy(merged.collectedSymptoms)
       /\ Truthy(merged.triageLevel)
       /\ merged.triageLevel # "CRITICAL"

\* Lines 262-271.
shouldCreateAppointment(row, aiResult, merged) ==
    /\ ~row.appointment_created
    /\ \/ aiResult.createAppointment = "true"
       \/ /\ Truthy(merged.collectedSymptoms)
          /\ Truthy(merged.triageLevel)
          /\ merged.triageLevel # "CRITICAL"

\* A column of an update's body: JSON.stringify leaves an undefined value
\* out, and the column then keeps what it holds.
column(value, stored) == IF value = U THEN stored ELSE value

\* The second update writing the snapshot's appointment_created back as well
\* (false in every snapshot that lets the request come this far unbooked).
mergedRow_ResetsFlag(stored, final, merged) ==
    [stored EXCEPT !.transcript = final, !.appointment_created = FALSE]

\* Lines 248-259: the columns the second update writes.
mergedRow(stored, final, merged) ==
    [stored EXCEPT
        !.transcript = final,
        !.conversation_state = column(merged.newState, @),
        !.collected_symptoms = column(merged.collectedSymptoms, @),
        !.triage_level = column(merged.triageLevel, @),
        !.urgency_score = column(merged.urgencyScore, @),
        !.first_aid_given = column(merged.firstAidGiven, @),
        !.patient_name = column(merged.patientName, @)]

\* Lines 229-271, and 298-316 when no appointment is due: merge, persist
\* (the result is not looked at), decide on the appointment.
MergeUpdate(r) ==
    /\ req[r].pc = "merge"
    /\ \E outcome \in Outcomes :
        /\ Allowed(outcome)
        /\ faults' = faults + Fault(outcome)
        /\ LET id == req[r].conversation.id
               row == req[r].conversation.row
               merged == mergeState(row, req[r].aiResult)
               final == finalTranscript(req[r].updatedTranscript, req[r].aiResult)
           IN /\ sessions' = IF outcome = "ok"
                             THEN [sessions EXCEPT
                                      ![id] = mergedRow(@, final, merged)]
                             ELSE sessions
              /\ IF shouldCreateAppointment(row, req[r].aiResult, merged)
                 THEN Set(r, [req[r] EXCEPT !.mergeWritten = (outcome = "ok"),
                                            !.pc = "appointment"])
                 ELSE Finish(r, [req[r] EXCEPT !.mergeWritten = (outcome = "ok")],
                             Success(req[r].isBaileysBot))
    /\ UNCHANGED <<hospitals, twilioConfigured, now, mergeIn, mergeOut>>

\* ------------------------------------------------------------- appointment
\* How the call of lines 276-295 can end: an answer, an HTTP error answer
\* (fetch() resolves all the same), or fetch() throwing.
AppointmentOutcomes == {"ok", "httpError", "throws"}

\* The appointment service, when it answers a call for a conversation, has
\* set the conversation's appointment_created (the handler never does).
appointmentService(rows, id) == [rows EXCEPT ![id].appointment_created = TRUE]

\* Lines 273-316: call whatsapp-create-appointment, then answer the channel.
CreateAppointment(r) ==
    /\ req[r].pc = "appointment"
    /\ \E outcome \in AppointmentOutcomes :
        /\ Allowed(outcome)
        /\ faults' = faults + Fault(outcome)
        /\ sessions' = IF outcome = "ok"
                       THEN appointmentService(sessions, req[r].conversation.id)
                       ELSE sessions
        /\ LET q == [req[r] EXCEPT !.appointment = outcome]
           IN IF outcome = "throws"
              THEN Catch(r, q)
              ELSE Finish(r, q, Success(q.isBaileysBot))
    /\ UNCHANGED <<hospitals, twilioConfigured, now, mergeIn, mergeOut>>

\* A request is being handled.
InFlight(r) == req[r].pc \notin {"idle", "done"}

\* An hour passes between two bursts of requests: a request lives for
\* seconds, so the requests that overlap see one hour of the clock.  The
\* clock starts with the first conversation (only differences are read).
Tick ==
    /\ now < MaxTime
    /\ sessions # <<>>
    /\ \A r \in Requests : ~InFlight(r)
    /\ now' = now + 1
    /\ UNCHANGED <<hospitals, twilioConfigured, sessions, req, faults, mergeIn, mergeOut>>

\* One step of request r's handler.
Handle(r) ==
    \/ HospitalLookup(r)
    \/ FallbackLookup(r)
    \/ SessionLookup(r)
    \/ SessionInsert(r)
    \/ InboundUpdate(r)
    \/ AiCall(r)
    \/ sendWhatsAppMessageViaTwilio(r)
    \/ MergeUpdate(r)
    \/ CreateAppointment(r)

\* Requests served concurrently: their steps interleave at every await.
Next ==
    \/ \E r \in Requests : Handle(r)
    \/ Tick

Spec == Init /\ [][Next]_vars

\* A request being handled takes its next step: every awaited call returns
\* or fails, and the event loop resumes the handler.
Resume(r) == InFlight(r) /\ Handle(r)

\* Requests served one after the other (the clock does not move while a
\* request is handled, see Tick): what a step of a request does to the
\* request depends on no other request being handled or not.
Serial ==
    \E r \in Requests : /\ \A q \in Requests \ {r} : ~InFlight(q)
                       /\ Handle(r)

SpecLive == Init /\ [][Serial]_vars /\ \A r \in Requests : WF_vars(Resume(r))

\* ------------------------------------------------- any table of hospitals
MaxHospitals == 2

HospitalNumbers ==
    { <<"15559876543">>, <<"+", "15559876543">>, <<"15550000009">> }

HospitalRows ==
    { HospitalRow(n, e, t) : n \in HospitalNumbers, e \in BOOLEAN,
                             t \in {"hospital", "clinic"} }

\* No two hospitals share a number (the bare and the signed form of one
\* number are two different values of the column).
HospitalTables ==
    { t \in UNION { [1..n -> HospitalRows] : n \in 0..MaxHospitals } :
        \A i, j \in DOMAIN t :
            t[i].whatsapp_number = t[j].whatsapp_number => i = j }

InitTenant ==
    /\ hospitals \in HospitalTables
    /\ twilioConfigured = TRUE
    /\ sessions = <<>>
    /\ req = [r \in Requests |-> IdleRequest]
    /\ now = 0
    /\ faults = 0
    /\ mergeIn = NoMerge
    /\ mergeOut = NoMerged

\* One request, alone.
NextOne ==
    \E r \in Requests : /\ \A q \in Requests \ {r} : req[q].pc = "idle"
                       /\ Handle(r)

SpecTenant == InitTenant /\ [][NextOne]_vars

\* ------------------------------------------------- the state merge, alone
\* What the reasoning service may put in each field of its answer, and what
\* a conversation row may hold when the handler reads it.
MergeResults ==
    { AiResult("reply", ns, sy, tl, pn, us, fa, ca) :
        ns \in {U, "triage"}, sy \in {U, "null", "fever"},
        tl \in {U, "", "MODERATE", "CRITICAL"}, pn \in {U, "Ann"},
        us \in {U, "0", "5"}, fa \in {U, "false", "rest"},
        ca \in {U, "true", "false"} }

MergeRows ==
    { [NewConversation(1, <<"15551234567">>, 0) EXCEPT
          !.collected_symptoms = sy, !.triage_level = tl, !.patient_name = pn,
          !.urgency_score = us, !.first_aid_given = fa,
          !.appointment_created = ac] :
        sy \in {"null", "cough"}, tl \in {"null", "LOW", "CRITICAL"},
        pn \in {"null", "Bob"}, us \in {"null", "2"}, fa \in {"null", "ice"},
        ac \in BOOLEAN }

InitMerge ==
    /\ hospitals = MainHospitals
    /\ twilioConfigured = TRUE
    /\ sessions = <<>>
    /\ req = [r \in Requests |-> IdleRequest]
    /\ now = 0
    /\ faults = 0
    /\ mergeIn \in [conversation : {[id |-> 1, row |-> row] : row \in MergeRows},
                    aiResult : MergeResults]
    /\ mergeOut = NoMerged

\* Lines 239-244 and 262-271 on one snapshot and one answer.
ApplyMerge ==
    /\ ~mergeOut.done
    /\ LET row == mergeIn.conversation.row
           merged == mergeState(row, mergeIn.aiResult)
       IN mergeOut' =
              [done |-> TRUE,
               newState |-> merged.newState,
               collectedSymptoms |-> merged.collectedSymptoms,
               triageLevel |-> merged.triageLevel,
               patientName |-> merged.patientName,
               urgencyScore |-> merged.urgencyScore,
               firstAidGiven |-> merged.firstAidGiven,
               shouldCreateAppointment |->
                   shouldCreateAppointment(row, mergeIn.aiResult, merged)]
    /\ UNCHANGED <<hospitals, twilioConfigured, sessions, req, now, faults, mergeIn>>

SpecMerge == InitMerge /\ [][ApplyMerge]_vars

\* ================================================================== claims
ClinicalFields ==
    {"collected_symptoms", "triage_level", "urgency_score", "first_aid_given",
     "patient_name"}

\* A session is active: not completed, last activity within the window.
Active(i) ==
    /\ sessions[i].conversation_state # "completed"
    /\ sessions[i].last_message_at >= now - TwoHours

SamePair(i, j) ==
    /\ sessions[i].hospital_id = sessions[j].hospital_id
    /\ sessions[i].patient_phone = sessions[j].patient_phone

\* Request r has issued the call to the appointment service.
Dispatched(r) == req[r].appointment # "none"

\* Request r takes the step that issues the call to the appointment service.
Dispatches(r) == req[r].pc = "appointment" /\ req'[r].pc = "done"

IsPrefix(s, t) == Len(s) <= Len(t) /\ SubSeq(t, 1, Len(s)) = s

\* C1: in every reachable state a (tenant, sender) pair has at most one
\* active session, also when no external call ever fails.
C1_AtMostOneActiveSession ==
    faults = 0 =>
        \A i, j \in DOMAIN sessions :
            (SamePair(i, j) /\ Active(i) /\ Active(j)) => i = j

\* C2: the call to the appointment service is issued at most once per
\* session, also when no external call ever fails.
C2_AtMostOneDispatchPerSession ==
    faults = 0 =>
        \A r1, r2 \in Requests :
            ( /\ Dispatched(r1) /\ Dispatched(r2)
              /\ req[r1].conversation.id = req[r2].conversation.id ) => r1 = r2

\* C3: no request issues the appointment call when the merged triage level
\* is CRITICAL, whatever the flag, the symptoms and createAppointment are.
C3_NoDispatchWhenCritical ==
    [][ \A r \in Requests :
          Dispatches(r) =>
              mergeState(req[r].conversation.row, req[r].aiResult).triageLevel
                  # "CRITICAL" ]_vars

\* C4: every write to a session's transcript extends it: the transcript
\* stored before the step is a prefix of the one stored after it.
C4_TranscriptAppendOnly ==
    [][ \A i \in DOMAIN sessions :
          IsPrefix(sessions[i].transcript, sessions'[i].transcript) ]_vars

\* A field of the reasoning service's answer is supplied: neither undefined
\* nor null.
Supplied(v) == v \notin {"undefined", "null"}

MergedAs(supplied, stored, merged) ==
    merged = IF Supplied(supplied) THEN supplied ELSE stored

\* C5: each merged field is the response's value when the response supplies
\* one (0, false and the empty string included), else the snapshot's.
C5_SuppliedFieldWins ==
    mergeOut.done =>
        LET row == mergeIn.conversation.row
            ai == mergeIn.aiResult
        IN /\ MergedAs(ai.newState, row.conversation_state, mergeOut.newState)
           /\ MergedAs(ai.symptoms, row.collected_symptoms, mergeOut.collectedSymptoms)
           /\ MergedAs(ai.triageLevel, row.triage_level, mergeOut.triageLevel)
           /\ MergedAs(ai.urgencyScore, row.urgency_score, mergeOut.urgencyScore)
           /\ MergedAs(ai.firstAid, row.first_aid_given, mergeOut.firstAidGiven)
           /\ MergedAs(ai.patientName, row.patient_name, mergeOut.patientName)

\* C6: a stored clinical field that holds a value is never set back to null
\* by a later write.
C6_ClinicalFieldNeverUnset ==
    [][ \A i \in DOMAIN sessions : \A f \in ClinicalFields :
          sessions[i][f] # "null" => sessions'[i][f] # "null" ]_vars

\* ---------------------------------------------------------------- C7
\* Request r1 created session s and had ended when r2 arrived; no other
\* request is being handled or has been; r2, for the same tenant and sender,
\* is about to look its session up within two hours of the first message.
C7_Scenario(r1, r2, s) ==
    /\ r1 < r2 /\ req[r2].arrivedAlone
    /\ req[r1].pc = "done" /\ req[r1].created /\ req[r1].conversation.id = s
    /\ \A q \in Requests \ {r1, r2} : req[q].pc = "idle"
    /\ req[r2].pc = "session"
    /\ req[r2].hospitalId = sessions[s].hospital_id
    /\ req[r2].patientPhone = sessions[s].patient_phone
    /\ now - sessions[s].created_at <= TwoHours

\* r2's step resolves it to session s and creates nothing.
C7_Reuses(r2, s) ==
    /\ req'[r2].pc = "inbound"
    /\ req'[r2].conversation.id = s
    /\ ~req'[r2].created
    /\ sessions' = sessions

Expired(i) ==
    /\ sessions[i].conversation_state # "completed"
    /\ now - sessions[i].last_message_at > TwoHours

OfRequest(r, i) ==
    /\ sessions[i].hospital_id = req[r].hospitalId
    /\ sessions[i].patient_phone = req[r].patientPhone

\* C8: a request whose sender's earlier session with the tenant is expired
\* (and who has no active one) does not resume it: it goes on to insert; the
\* insert makes a row with a new id and leaves every row as it is; and no
\* step of a request deletes a row or changes one other than its own.
C8_ExpiredSessionNotResumed ==
    [][ \A r \in Requests :
          /\ \A s \in DOMAIN sessions :
                ( /\ req[r].pc = "session" /\ req'[r] # req[r]
                  /\ OfRequest(r, s) /\ Expired(s)
                  /\ \A j \in DOMAIN sessions : OfRequest(r, j) => ~Active(j) )
                    => /\ req'[r].pc = "insert"
                       /\ req'[r].conversation.id = 0
                       /\ sessions' = sessions
          /\ (req[r].pc = "insert" /\ req'[r].pc = "inbound")
                => /\ req'[r].conversation.id = Len(sessions) + 1
                   /\ req'[r].created
                   /\ SubSeq(sessions', 1, Len(sessions)) = sessions
                   /\ Len(sessions') = Len(sessions) + 1
          /\ (req'[r] # req[r] /\ req[r].pc \notin {"insert", "done"})
                => /\ Len(sessions') = Len(sessions)
                   /\ \A i \in DOMAIN sessions :
                         sessions'[i] # sessions[i] => i = req[r].conversation.id
          /\ (req[r].conversation.id # 0 /\ req'[r].pc # "idle")
                => req'[r].conversation.id = req[r].conversation.id ]_vars

\* A request has created a second session for a pair whose first session
\* was left open more than two hours before, and the first session is as it
\* was left.
C8_Witness ==
    \E r \in Requests : \E s \in DOMAIN sessions :
        /\ req[r].pc = "done" /\ req[r].created
        /\ req[r].response.kind \in {"success", "empty"}
        /\ s # req[r].conversation.id
        /\ SamePair(s, req[r].conversation.id)
        /\ sessions[s].conversation_state # "completed"
        /\ sessions[req[r].conversation.id].created_at
               - sessions[s].last_message_at > TwoHours
        /\ Len(sessions[s].transcript) = 2

\* ---------------------------------------------------------------- C9
\* No enabled hospital has the address, bare or signed, and no hospital is
\* there for the fallback query to return.
NoTenant(address) ==
    /\ \A i \in DOMAIN hospitals :
          ~ ( /\ hospitals[i].whatsapp_enabled
              /\ hospitals[i].whatsapp_number \in {address, <<"+">> \o address} )
    /\ \A i \in DOMAIN hospitals : hospitals[i].organization_type # "hospital"

C10_ReasoningFailureLeavesInboundOnly ==
    \A r \in Requests :
        /\ req[r].aiOutcome # "none" => req[r].inboundWritten
        /\ (req[r].aiOutcome \in {"throws", "httpError"} /\ req[r].pc = "done")
              => /\ req[r].response.kind = "error"
                 /\ req[r].inboundWritten
                 /\ ~req[r].mergeWritten
                 /\ ~req[r].sent
                 /\ req[r].appointment = "none"

\* ---------------------------------------------------------------- C11
\* C11: a request whose appointment call failed, by an HTTP error answer or
\* by fetch() throwing, has ended with the success response of its channel,
\* as it would have with the call succeeding.
C11_AppointmentFailureInvisible ==
    \A r \in Requests :
        (req[r].pc = "done" /\ req[r].appointment \in {"httpError", "throws"})
            => req[r].response = Success(req[r].isBaileysBot)

\* ---------------------------------------------------------------- C13
\* C13: no step changes a session's appointment_created from true to false.
C13_FlagNeverReset ==
    [][ \A i \in DOMAIN sessions :
          sessions[i].appointment_created => sessions'[i].appointment_created ]_vars

\* A request that resolved a session already booked has written its patient
\* turn and its merged state to it, and the session is still booked.
C13_Witness ==
    \E r \in Requests :
        /\ req[r].pc = "done" /\ ~req[r].created
        /\ req[r].inboundWritten /\ req[r].mergeWritten
        /\ req[r].appointment = "none"
        /\ sessions[req[r].conversation.id].appointment_created
        /\ Len(sessions[req[r].conversation.id].transcript) = 4

\* ---------------------------------------------------------------- C12
\* The format the request's channel expects: JSON for the bot, XML for Twilio.
ChannelFormat(r) == IF req[r].isBaileysBot THEN "json" ELSE "xml"

\* C12: every request being handled ends; it has no response before it ends,
\* it ends with a response in the format of its channel (success, 'not
\* configured' or error), and the response once returned is never replaced.
C12_EndsWithChannelResponse ==
    /\ \A r \in Requests : InFlight(r) ~> (req[r].pc = "done")
    /\ [](\A r \in Requests :
            /\ req[r].pc # "done" => req[r].response = NoResponse
            /\ req[r].pc = "done" =>
                  /\ req[r].response.format = ChannelFormat(r)
                  /\ req[r].response.kind \in
                         {"success", "empty", "not_configured", "error"})
    /\ [][ \A r \in Requests :
             req[r].pc = "done" => req'[r] = req[r] ]_vars

\* Both channels have ended on the error path, each with its own format.
C12_Witness ==
    \E r1, r2 \in Requests :
        /\ req[r1].pc = "done" /\ req[r1].isBaileysBot
        /\ req[r1].response = [format |-> "json", kind |-> "error", status |-> 500]
        /\ req[r2].pc = "done" /\ ~req[r2].isBaileysBot
        /\ req[r2].response = [format |-> "xml", kind |-> "error", status |-> 200]

\* ---------------------------------------------------------------- C14
\* The condition of the appointment trigger on what request r holds: the
\* snapshot it resolved and the reasoning response it received.
GateOpen(r) ==
    LET row == req[r].conversation.row
        ai == req[r].aiResult
        symptoms == IF Supplied(ai.symptoms)
                    THEN ai.symptoms ELSE row.collected_symptoms
        triage == IF Supplied(ai.triageLevel)
                  THEN ai.triageLevel ELSE row.triage_level
    IN /\ row.appointment_created = FALSE
       /\ \/ ai.createAppointment = "true"
          \/ /\ Supplied(symptoms)
             /\ Supplied(triage)
             /\ triage # "CRITICAL"

\* C14: a request that has merged its state goes on to the appointment call
\* exactly when the trigger's condition holds on its snapshot and response;
\* the call is then issued once; and no call is issued in any other way.
C14_DispatchIffGate ==
    [][ \A r \in Requests :
          /\ (req[r].pc = "merge" /\ req'[r] # req[r]) =>
                IF GateOpen(r)
                THEN req'[r].pc = "appointment" /\ req'[r].appointment = "none"
                ELSE req'[r].pc = "done" /\ req'[r].appointment = "none"
          /\ (req[r].pc = "appointment" /\ req'[r] # req[r]) =>
                req'[r].pc = "done" /\ req'[r].appointment # "none"
          /\ req'[r].appointment # req[r].appointment =>
                /\ req[r].pc = "appointment" /\ req[r].appointment = "none"
                /\ GateOpen(r) ]_vars

\* A request on a new session whose response had symptoms and triage level
\* MODERATE has issued the call, once, and the service has booked.
C14_Witness ==
    \E r \in Requests :
        /\ req[r].pc = "done" /\ req[r].created /\ req[r].mergeWritten
        /\ req[r].appointment = "ok"
        /\ sessions[req[r].conversation.id].triage_level = "MODERATE"
        /\ sessions[req[r].conversation.id].collected_symptoms = "fever"
        /\ sessions[req[r].conversation.id].appointment_created
        /\ Len(sessions[req[r].conversation.id].transcript) = 2

\* ---------------------------------------------------------------- C15
\* C15: a request whose inbound-turn write failed makes no reasoning call,
\* one whose merged-state write failed makes no appointment call, and
\* neither ends with the success response.
C15_WriteFailureAborts ==
    \A r \in Requests :
        /\ req[r].pc \in {"ai", "send", "merge", "appointment"}
              => req[r].inboundWritten
        /\ req[r].aiOutcome # "none" => req[r].inboundWritten
        /\ (req[r].pc = "appointment" \/ Dispatched(r)) => req[r].mergeWritten
        /\ (req[r].pc = "done" /\ req[r].response.kind \in {"success", "empty"})
              => req[r].inboundWritten /\ req[r].mergeWritten

\* ---------------------------------------------------------------- C16
\* C16: the tenant a request is routed to, by address match or by fallback,
\* is an enabled one.
C16_RoutedTenantEnabled ==
    \A r \in Requests :
        req[r].hospitalId # 0 => hospitals[req[r].hospitalId].whatsapp_enabled

\* ---------------------------------------------------------------- C17
\* C17: with no query failing, a request whose recipient address is the
\* address of at least one enabled tenant, bare or signed, is routed to such
\* a tenant and never reaches the fallback query.
C17_MatchPreferredOverFallback ==
    \A r \in Requests :
        ( /\ faults = 0
          /\ req[r].pc # "idle"
          /\ matchingHospitals(req[r].hospitalWhatsApp) # {} )
            => /\ req[r].pc # "fallback"
               /\ req[r].hospitalId \in matchingHospitals(req[r].hospitalWhatsApp)

\* ---------------------------------------------------------------- C18
\* C18: a session stored as 'completed' stays 'completed', and its
\* transcript and clinical fields stay as they are, whatever step is taken.
C18_CompletedSessionFrozen ==
    [][ \A i \in DOMAIN sessions :
          sessions[i].conversation_state = "completed" =>
              /\ sessions'[i].conversation_state = "completed"
              /\ sessions'[i].transcript = sessions[i].transcript
              /\ \A f \in ClinicalFields : sessions'[i][f] = sessions[i][f] ]_vars

\* ---------------------------------------------------------------- C19
\* C19: the step of a request changes no stored session but the one the
\* request holds, which is of the request's tenant and sender; a session it
\* creates is of its tenant and sender and becomes the one it holds; no step
\* removes a session or changes a session's tenant or sender.
C19_WritesOwnSessionOnly ==
    [][ /\ \A r \in Requests : req'[r] # req[r] =>
              /\ \A i \in DOMAIN sessions :
                    sessions'[i] # sessions[i] =>
                        /\ i = req[r].conversation.id
                        /\ sessions[i].hospital_id = req[r].hospitalId
                        /\ sessions[i].patient_phone = req[r].patientPhone
              /\ Len(sessions') # Len(sessions) =>
                    /\ Len(sessions') = Len(sessions) + 1
                    /\ req[r].conversation.id = 0
                    /\ req'[r].conversation.id = Len(sessions')
                    /\ sessions'[Len(sessions')].hospital_id = req[r].hospitalId
                    /\ sessions'[Len(sessions')].patient_phone = req[r].patientPhone
        /\ \A i \in DOMAIN sessions :
              /\ i \in DOMAIN sessions'
              /\ sessions'[i].hospital_id = sessions[i].hospital_id
              /\ sessions'[i].patient_phone = sessions[i].patient_phone ]_vars

\* Two senders have a session each; the second sender's request has written
\* both its updates while the first sender's session stayed as it was left.
C19_Witness ==
    \E r \in Requests :
        /\ req[r].pc = "done" /\ req[r].conversation.id = 2
        /\ req[r].inboundWritten /\ req[r].mergeWritten
        /\ Len(sessions) = 2
        /\ ~SamePair(1, 2)
        /\ Len(sessions[1].transcript) = 2
        /\ Len(sessions[2].transcript) = 2

\* ---------------------------------------------------------------- C20
\* C20: a request on the Twilio channel that has sent the reply through the
\* Twilio API ends with the empty envelope, never with one that carries a
\* message; a request on the bot channel ends with one response text.
C20_AtMostOneMessage ==
    \A r \in Requests :
        /\ (req[r].pc = "done" /\ req[r].sent) => req[r].response.kind = "empty"
        /\ (req[r].pc = "done" /\ req[r].isBaileysBot) =>
               /\ ~req[r].sent
               /\ req[r].response.kind \in {"success", "not_configured", "error"}

====
